---- MODULE Spec2Model ----
(***************************************************************************)
(* Model of the sitemap / robots generator of Gringo787_Pro                *)
(* (scripts/seo.js as written by the upgrade bundle, src/unnamed/part_003).*)
(*                                                                         *)
(* Strings are sequences of atoms.  An atom is a run of characters that no *)
(* pattern of the program can split: the separator "/" is an atom, and so  *)
(* are "index.html", "404.html", "thanks", "services", "servicios", "es",  *)
(* "contact", "o" ("contact" followed by "o" spells "contacto"), "my" and  *)
(* "public".  No concatenation of two atoms creates an occurrence of a     *)
(* pattern ("/index.html", "/services", "/es/servicios", "/contact",       *)
(* "/es/contacto", "public") that is not aligned with the atoms, so the    *)
(* character-level string operations of the code (endsWith, startsWith,    *)
(* replace, ===, trim) are the same operations on sequences of atoms.      *)
(***************************************************************************)
EXTENDS Integers, Sequences, FiniteSets, TLC

\* ------------------------------------------------------------------ bounds

\* deepest directory nesting under public/ in the paths of SpecListing
MaxDepth == 2
\* largest number of files under public/ in Spec
MaxFiles == 2
\* largest number of stylesheet and script references in dist/index.html
MaxRefs == 2
\* largest number of clicks on the hamburger
MaxClicks == 6

\* ------------------------------------------------------- string operations

SLASH == "/"

\* s.startsWith(pre)
StartsWith(s, pre) ==
  /\ Len(pre) <= Len(s)
  /\ SubSeq(s, 1, Len(pre)) = pre

\* s.endsWith(suf)
EndsWith(s, suf) ==
  /\ Len(suf) <= Len(s)
  /\ SubSeq(s, Len(s) - Len(suf) + 1, Len(s)) = suf

\* the positions at which pat occurs in s
Occurrences(s, pat) ==
  {i \in 1..(Len(s) - Len(pat) + 1) : SubSeq(s, i, i + Len(pat) - 1) = pat}

Min(S) == CHOOSE x \in S : \A y \in S : x <= y

\* s.replace(pat, rep) with a string pattern: only the FIRST occurrence of
\* pat is replaced; s is returned unchanged when pat does not occur
ReplaceFirst(s, pat, rep) ==
  IF Occurrences(s, pat) = {} THEN s
  ELSE LET i == Min(Occurrences(s, pat))
       IN SubSeq(s, 1, i - 1) \o rep \o SubSeq(s, i + Len(pat), Len(s))

WhiteSpace == {"\n", " "}

RECURSIVE TrimStart(_)
TrimStart(s) ==
  IF s # <<>> /\ Head(s) \in WhiteSpace THEN TrimStart(Tail(s)) ELSE s

RECURSIVE TrimEnd(_)
TrimEnd(s) ==
  IF s # <<>> /\ s[Len(s)] \in WhiteSpace
  THEN TrimEnd(SubSeq(s, 1, Len(s) - 1)) ELSE s

\* String.prototype.trim
Trim(s) == TrimEnd(TrimStart(s))

\* ------------------------------------------------------------ path and glob

\* the segments of a path: the runs of atoms between the separators
RECURSIVE Segments(_)
Segments(p) ==
  IF \A i \in 1..Len(p) : p[i] # SLASH THEN <<p>>
  ELSE LET i == Min({j \in 1..Len(p) : p[j] = SLASH})
       IN <<SubSeq(p, 1, i - 1)>> \o Segments(SubSeq(p, i + 1, Len(p)))

\* atoms whose text ends in ".html"
HtmlAtoms == {"index.html", "404.html"}

\* one pattern segment against one path segment; "*.html" is any name that
\* ends in .html, every other pattern segment is a literal name
SegmentMatches(pat, seg) ==
  IF pat = <<"*.html">> THEN seg # <<>> /\ seg[Len(seg)] \in HtmlAtoms
  ELSE seg = pat

\* a glob (a sequence of pattern segments) against the segments of a path;
\* "**" stands for zero or more directories
RECURSIVE GlobMatches(_, _)
GlobMatches(pats, segs) ==
  IF pats = <<>> THEN segs = <<>>
  ELSE IF Head(pats) = <<"**">>
       THEN \/ GlobMatches(Tail(pats), segs)
            \/ /\ segs # <<>>
               /\ GlobMatches(pats, Tail(segs))
       ELSE /\ segs # <<>>
            /\ SegmentMatches(Head(pats), Head(segs))
            /\ GlobMatches(Tail(pats), Tail(segs))

\* ------------------------------------------------------------ the program

\* const GLOBS: the positive pattern and the two negated patterns
GlobInclude == <<<<"public">>, <<"**">>, <<"*.html">>>>
GlobNot404 == <<<<"public">>, <<"404.html">>>>
\* mutant: the thank-you page is excluded at the root only
GlobNotThanksRootOnly == <<<<"public">>, <<"thanks">>, <<"index.html">>>>
GlobNotThanks == <<<<"public">>, <<"**">>, <<"thanks">>, <<"index.html">>>>

\* mutant: the not-found page is not excluded
GlobSelectsWith404(p) ==
  /\ GlobMatches(GlobInclude, Segments(p))
  /\ ~GlobMatches(GlobNotThanks, Segments(p))

\* globby(GLOBS) on one path: it matches the positive pattern and none of the
\* negated ones
GlobSelects(p) ==
  /\ GlobMatches(GlobInclude, Segments(p))
  /\ ~GlobMatches(GlobNot404, Segments(p))
  /\ ~GlobMatches(GlobNotThanks, Segments(p))

\* the set of paths globby(GLOBS) returns for the file tree tree
Globby(tree) == {p \in tree : GlobSelects(p)}

\* every order in which a scan can return the set S of paths: globby
\* promises no order and the code does not sort
Orderings(S) ==
  {q \in [1..Cardinality(S) -> S] : \A i, j \in 1..Cardinality(S) : q[i] = q[j] => i = j}

\* mutant: the prefix is stripped together with its separator
StripRootAndSlash(p) ==
  IF StartsWith(p, <<"public", SLASH>>) THEN SubSeq(p, 3, Len(p)) ELSE p

\* p.replace(/^public/, '')
StripRoot(p) == IF StartsWith(p, <<"public">>) THEN Tail(p) ELSE p

\* mutant: the directory index is not collapsed
NormalizeVerbatim(url) == url

\* url.endsWith('/index.html') ? url.replace('/index.html', '/') : url
Normalize(url) ==
  IF EndsWith(url, <<SLASH, "index.html">>)
  THEN ReplaceFirst(url, <<SLASH, "index.html">>, <<SLASH>>)
  ELSE url

\* mutant: the home test is a prefix test
PriorityHomePrefix(normalized) ==
  IF StartsWith(normalized, <<SLASH>>) THEN 10
  ELSE IF \/ StartsWith(normalized, <<SLASH, "services">>)
          \/ StartsWith(normalized, <<SLASH, "es", SLASH, "servicios">>) THEN 8
  ELSE IF \/ StartsWith(normalized, <<SLASH, "contact">>)
          \/ StartsWith(normalized, <<SLASH, "es", SLASH, "contact", "o">>) THEN 9
  ELSE 7

\* mutant: the services test also takes everything under /es
PriorityServicesLoose(normalized) ==
  IF normalized = <<SLASH>> THEN 10
  ELSE IF \/ StartsWith(normalized, <<SLASH, "services">>)
          \/ StartsWith(normalized, <<SLASH, "es">>) THEN 8
  ELSE IF \/ StartsWith(normalized, <<SLASH, "contact">>)
          \/ StartsWith(normalized, <<SLASH, "es", SLASH, "contact", "o">>) THEN 9
  ELSE 7

\* the priority, in tenths, in the order the code tests the conditions
Priority(normalized) ==
  IF normalized = <<SLASH>> THEN 10
  ELSE IF \/ StartsWith(normalized, <<SLASH, "services">>)
          \/ StartsWith(normalized, <<SLASH, "es", SLASH, "servicios">>) THEN 8
  ELSE IF \/ StartsWith(normalized, <<SLASH, "contact">>)
          \/ StartsWith(normalized, <<SLASH, "es", SLASH, "contact", "o">>) THEN 9
  ELSE 7

\* one element of links
Link(p) ==
  LET normalized == Normalize(StripRoot(p))
  IN [url |-> normalized, changefreq |-> "weekly", priority |-> Priority(normalized)]

\* links: one record per scanned file, in scan order
Links(fileSeq) == [i \in 1..Len(fileSeq) |-> Link(fileSeq[i])]

\* what SitemapStream({ hostname }) emits for one link: the location is the
\* hostname followed by the link's url
Entry(hostname, l) ==
  [loc |-> <<hostname>> \o l.url, changefreq |-> l.changefreq, priority |-> l.priority]

DefaultOrigin == "https://www.gringo787.com"
ExampleOrigin == "https://www.example.com"
Unset == "undefined"

\* mutant: SITE_URL is ignored
SiteUrlDefaultOnly(e) == DefaultOrigin

\* process.env.SITE_URL || 'https://www.gringo787.com'
SiteUrlOf(e) == IF e = Unset \/ e = "" THEN DefaultOrigin ELSE e

\* mutant: a blank line before the Sitemap line
DesiredBlankLine(origin) ==
  <<"User-agent: *", "\n", "Allow: /", "\n", "\n", "Sitemap: ", origin, "/sitemap.xml", "\n">>

\* `User-agent: *\nAllow: /\nSitemap: ${SITE_URL}/sitemap.xml\n`
Desired(origin) ==
  <<"User-agent: *", "\n", "Allow: /", "\n", "Sitemap: ", origin, "/sitemap.xml", "\n">>

\* mutant: the two contents are compared without trimming
NeedsWriteExact(cur, desired) == cur # desired

\* mutant: an absent or empty robots.txt is taken to be up to date
NeedsWriteNonEmpty(cur, desired) == cur # <<>> /\ Trim(cur) # Trim(desired)

\* current.trim() !== desired.trim()
NeedsWrite(cur, desired) == Trim(cur) # Trim(desired)

\* ------------------------------------------------------------ file contents

\* a file of the output root: absent, or present with its content
NoFile == [exists |-> FALSE, data |-> <<>>]
File(content) == [exists |-> TRUE, data |-> content]

\* the chunks of a sitemap document: the XML head, one <url> element per
\* entry, the closing tag
HeadChunk == [kind |-> "head", loc |-> <<>>, changefreq |-> "", priority |-> 0]
TailChunk == [kind |-> "tail", loc |-> <<>>, changefreq |-> "", priority |-> 0]
UrlChunk(e) ==
  [kind |-> "url", loc |-> e.loc, changefreq |-> e.changefreq, priority |-> e.priority]
\* the placeholder the bootstrap script leaves in public/sitemap.xml
CommentChunk ==
  [kind |-> "comment", loc |-> <<>>, changefreq |-> "", priority |-> 0]

\* the k-th chunk the sitemap stream hands to the file stream
Chunk(hostname, linkSeq, k) ==
  IF k = 1 THEN HeadChunk
  ELSE IF k = Len(linkSeq) + 2 THEN TailChunk
  ELSE UrlChunk(Entry(hostname, linkSeq[k - 1]))

\* the whole document for a sequence of links
Document(hostname, linkSeq) ==
  [k \in 1..(Len(linkSeq) + 2) |-> Chunk(hostname, linkSeq, k)]

\* a stretch of the file no process has written since it was truncated
HoleChunk == [kind |-> "hole", loc |-> <<>>, changefreq |-> "", priority |-> 0]

\* a file stream writes its k-th chunk where its own earlier chunks end, not
\* at the end of the file: data with slot k overwritten by c (the file is a
\* sequence of slots of one chunk each)
WriteAt(data, k, c) ==
  [i \in 1..(IF Len(data) > k THEN Len(data) ELSE k) |->
     IF i = k THEN c ELSE IF i <= Len(data) THEN data[i] ELSE HoleChunk]

\* the <url> elements of a sitemap file, in file order
UrlsOf(data) == SelectSeq(data, LAMBDA c : c.kind = "url")

\* ---------------------------------------------------------------- universes

\* names of directories and files, as sequences of atoms
DirNames ==
  {<<"thanks">>, <<"index.html">>, <<"es">>, <<"services">>, <<"servicios">>,
   <<"contact">>, <<"contact", "o">>}
FileNames ==
  {<<"index.html">>, <<"404.html">>, <<"my", "index.html">>, <<"styles.css">>}

\* the directories of depth at most n, each written "/a/b"
RECURSIVE DirsUpTo(_)
DirsUpTo(n) ==
  IF n = 0 THEN {<<>>}
  ELSE DirsUpTo(n - 1) \cup
       {d \o <<SLASH>> \o name : d \in DirsUpTo(n - 1), name \in DirNames}

\* every file path under public/ SpecListing draws from
AllPaths ==
  {<<"public">> \o d \o <<SLASH>> \o f : d \in DirsUpTo(MaxDepth), f \in FileNames}

\* the sets of at most n elements of S
RECURSIVE SetsUpTo(_, _)
SetsUpTo(S, n) ==
  IF n = 0 THEN {{}}
  ELSE SetsUpTo(S, n - 1) \cup {T \cup {x} : T \in SetsUpTo(S, n - 1), x \in S}

\* the files Spec adds to and removes from public/: the pages of the
\* end-to-end scenario, a stylesheet and a translated thank-you page
Pages ==
  {<<"public", SLASH, "index.html">>,
   <<"public", SLASH, "services", SLASH, "index.html">>,
   <<"public", SLASH, "contact", SLASH, "index.html">>,
   <<"public", SLASH, "404.html">>,
   <<"public", SLASH, "thanks", SLASH, "index.html">>,
   <<"public", SLASH, "es", SLASH, "thanks", SLASH, "index.html">>,
   <<"public", SLASH, "styles.css">>}

EnvValues == {Unset, ExampleOrigin}
Origins == {SiteUrlOf(e) : e \in EnvValues}

\* robots.txt as the builder can find it: absent, empty, unrelated text, and
\* for each origin the directive itself, the directive without its final
\* newline, and the directive surrounded by blank space
RobotsStates ==
  {NoFile, File(<<>>), File(<<"Disallow: /">>)} \cup
  UNION {{File(Desired(o)),
          File(TrimEnd(Desired(o))),
          File(<<"\n">> \o Desired(o) \o <<" ">>)} : o \in Origins}

\* ------------------------------------------------------------------- state

VARIABLES
  fs,           \* the files under public/ (sitemap.xml and robots.txt apart)
  env,          \* process.env.SITE_URL
  sitemap,      \* public/sitemap.xml
  robots,       \* public/robots.txt
  pc,           \* "idle", "scanning", "opening", "piping", "done" (exit
                \* status 0), "failed" (uncaught error, exit status 1)
  siteUrl,      \* const SITE_URL of the running process
  files,        \* const files
  links,        \* const links
  flushed,      \* number of chunks the file stream has written
  existed,      \* existsSync(robotsPath) in the finish handler
  current,      \* const current in the finish handler
  wroteRobots,  \* whether the finish handler called writeFileSync
  last,         \* sitemap.xml as this run found it; valid when the run
                \* started right after a finished run, nothing changed between
  root,         \* whether the directory public/ exists
  p2,           \* a second build process on the same output root
  nodeEnv,      \* process.env.NODE_ENV
  seo,          \* a process running scripts/seo.js
  vb,           \* dist/ and a process running scripts/validate-build.js
  ui,           \* the page's navigation elements and script.js
  rj            \* "done" once scripts/robots.js has run in the present
                \* environment, "idle" before

vars ==
  <<fs, env, sitemap, robots, pc, siteUrl, files, links, flushed, existed,
    current, wroteRobots, last, root, p2, nodeEnv, seo, vb, ui, rj>>

\* the second process before it starts
NoP2 == [pc |-> "idle", siteUrl |-> Unset, links |-> <<>>, flushed |-> 0]

\* scripts/seo.js before it starts
NoSeo == [pc |-> "idle", hostname |-> Unset, pages |-> <<>>, urls |-> <<>>,
          xml |-> <<>>, found |-> [exists |-> FALSE, data |-> <<>>], exit |-> -1,
          at |-> "idle"]

\* no dist/ under inspection, no page loaded
NoVb == [dist |-> FALSE, entries |-> {}, refs |-> <<>>, present |-> {},
         pc |-> "idle", todo |-> <<>>, missingAssets |-> <<>>,
         reported |-> <<>>, ok |-> FALSE, exit |-> -1]
NoUi == [aos |-> FALSE, hamburger |-> FALSE, menu |-> FALSE,
         expanded |-> "absent", hidden |-> FALSE, pc |-> "idle",
         installed |-> FALSE, clicks |-> 0,
         first |-> [expanded |-> "absent", hidden |-> FALSE]]

\* the scripts other than the sitemap builder have not run
InitOthers ==
  /\ nodeEnv = Unset
  /\ seo = NoSeo
  /\ vb = NoVb
  /\ ui = NoUi
  /\ rj = "idle"

NoLast == [valid |-> FALSE, data |-> <<>>]

\* no build process: its constants and locals do not exist
NoProcess ==
  /\ siteUrl' = Unset
  /\ files' = <<>>
  /\ links' = <<>>
  /\ flushed' = 0
  /\ existed' = FALSE
  /\ current' = <<>>
  /\ wroteRobots' = FALSE
  /\ last' = NoLast

InitProcess ==
  /\ pc = "idle"
  /\ siteUrl = Unset
  /\ files = <<>>
  /\ links = <<>>
  /\ flushed = 0
  /\ existed = FALSE
  /\ current = <<>>
  /\ wroteRobots = FALSE
  /\ last = NoLast

Init ==
  /\ fs \in SetsUpTo(Pages, MaxFiles)
  /\ env \in EnvValues
  /\ sitemap = File(<<CommentChunk>>)
  /\ robots \in RobotsStates
  /\ InitProcess
  /\ root = TRUE
  /\ p2 = NoP2
  /\ InitOthers

\* ------------------------------------------------------------ build steps

\* node scripts/seo.js: the module is loaded, SITE_URL is read, the async
\* function starts and awaits globby(GLOBS)
StartBuild ==
  /\ pc \in {"idle", "done"}
  /\ pc' = "scanning"
  /\ siteUrl' = SiteUrlOf(env)
  /\ last' = [valid |-> pc = "done", data |-> sitemap.data]
  /\ files' = <<>>
  /\ links' = <<>>
  /\ flushed' = 0
  /\ existed' = FALSE
  /\ current' = <<>>
  /\ wroteRobots' = FALSE
  /\ UNCHANGED <<nodeEnv, seo, vb, ui, rj, root, p2, fs, env, sitemap, robots>>

\* globby resolves; the function maps the files to links, creates the two
\* streams, pipes them and queues every link and the end of the stream
ScanDone ==
  /\ pc = "scanning"
  /\ \E q \in Orderings(Globby(fs)) :
       /\ files' = q
       /\ links' = Links(q)
  /\ pc' = "opening"
  /\ UNCHANGED <<nodeEnv, seo, vb, ui, rj, root, p2, fs, env, sitemap, robots, siteUrl, flushed, existed, current,
                 wroteRobots, last>>

\* mutant: the file is opened for appending
OpenFileAppend ==
  /\ pc = "opening"
  /\ root
  /\ sitemap' = File(sitemap.data)
  /\ pc' = "piping"
  /\ UNCHANGED <<nodeEnv, seo, vb, ui, rj, root, p2, fs, env, robots, siteUrl, files, links, flushed, existed,
                 current, wroteRobots, last>>

\* mutant: a missing public/ is created before the file is opened
OpenFileMkdir ==
  /\ pc = "opening"
  /\ root' = TRUE
  /\ sitemap' = File(<<>>)
  /\ pc' = "piping"
  /\ UNCHANGED <<nodeEnv, seo, vb, ui, rj, p2, fs, env, robots, siteUrl, files, links, flushed, existed,
                 current, wroteRobots, last>>

\* createWriteStream('public/sitemap.xml') opens the file with flag 'w':
\* it is created or truncated; the directory public/ has to exist
OpenFile ==
  /\ pc = "opening"
  /\ root
  /\ sitemap' = File(<<>>)
  /\ pc' = "piping"
  /\ UNCHANGED <<nodeEnv, seo, vb, ui, rj, root, p2, fs, env, robots, siteUrl, files, links, flushed, existed,
                 current, wroteRobots, last>>

\* mutant: the file is opened with O_APPEND, every chunk goes to its end
WriteChunkAppend ==
  /\ pc = "piping"
  /\ flushed < Len(links) + 2
  /\ sitemap' = File(Append(sitemap.data, Chunk(siteUrl, links, flushed + 1)))
  /\ flushed' = flushed + 1
  /\ UNCHANGED <<nodeEnv, seo, vb, ui, rj, root, p2, fs, env, robots, pc, siteUrl, files, links, existed,
                 current, wroteRobots, last>>

\* stream.pipe(write): the next chunk of the document is written to the file,
\* after the chunks this process wrote before
WriteChunk ==
  /\ pc = "piping"
  /\ flushed < Len(links) + 2
  /\ sitemap' = File(WriteAt(sitemap.data, flushed + 1, Chunk(siteUrl, links, flushed + 1)))
  /\ flushed' = flushed + 1
  /\ UNCHANGED <<nodeEnv, seo, vb, ui, rj, root, p2, fs, env, robots, pc, siteUrl, files, links, existed, current,
                 wroteRobots, last>>

\* mutant: the handler does not wait for the file stream to finish
FinishEarly ==
  /\ pc = "piping"
  /\ LET desired == Desired(siteUrl)
         cur == IF robots.exists THEN robots.data ELSE <<>>
     IN /\ existed' = robots.exists
        /\ current' = cur
        /\ IF NeedsWrite(cur, desired)
           THEN /\ robots' = File(desired)
                /\ wroteRobots' = TRUE
           ELSE /\ robots' = robots
                /\ wroteRobots' = FALSE
  /\ pc' = "done"
  /\ UNCHANGED <<nodeEnv, seo, vb, ui, rj, root, p2, fs, env, sitemap, siteUrl, files, links, flushed, last>>

\* write.on('finish'): every chunk is in the file; robots.txt is reconciled
Finish ==
  /\ pc = "piping"
  /\ flushed = Len(links) + 2
  /\ LET desired == Desired(siteUrl)
         cur == IF robots.exists THEN robots.data ELSE <<>>
     IN /\ existed' = robots.exists
        /\ current' = cur
        /\ IF NeedsWrite(cur, desired)
           THEN /\ robots' = File(desired)
                /\ wroteRobots' = TRUE
           ELSE /\ robots' = robots
                /\ wroteRobots' = FALSE
  /\ pc' = "done"
  /\ UNCHANGED <<nodeEnv, seo, vb, ui, rj, root, p2, fs, env, sitemap, siteUrl, files, links, flushed, last>>

\* ------------------------------------------------ changes between two builds

\* a page is published under public/
AddFile ==
  /\ pc \in {"idle", "done"}
  /\ Cardinality(fs) < MaxFiles
  /\ \E p \in Pages \ fs : fs' = fs \cup {p}
  /\ pc' = "idle"
  /\ NoProcess
  /\ UNCHANGED <<nodeEnv, seo, vb, ui, rj, root, p2, env, sitemap, robots>>

\* a page is removed from public/
RemoveFile ==
  /\ pc \in {"idle", "done"}
  /\ \E p \in fs : fs' = fs \ {p}
  /\ pc' = "idle"
  /\ NoProcess
  /\ UNCHANGED <<nodeEnv, seo, vb, ui, rj, root, p2, env, sitemap, robots>>

\* robots.txt is edited or deleted by hand
EditRobots ==
  /\ pc \in {"idle", "done"}
  /\ \E r \in RobotsStates \ {robots} : robots' = r
  /\ pc' = "idle"
  /\ NoProcess
  /\ UNCHANGED <<nodeEnv, seo, vb, ui, rj, root, p2, fs, env, sitemap>>

\* the deployment sets or unsets SITE_URL
SetEnv ==
  /\ pc \in {"idle", "done"}
  /\ \E e \in EnvValues \ {env} : env' = e
  /\ pc' = "idle"
  /\ NoProcess
  /\ UNCHANGED <<nodeEnv, seo, vb, ui, rj, root, p2, fs, sitemap, robots>>

Next == StartBuild \/ ScanDone \/ OpenFile \/ WriteChunk \/ Finish
          \/ AddFile \/ RemoveFile \/ EditRobots \/ SetEnv

Spec == Init /\ [][Next]_vars

\* public/ holds one file, any path of the universe, and is built
InitListing ==
  /\ fs \in {{p} : p \in AllPaths}
  /\ env \in EnvValues
  /\ sitemap = File(<<CommentChunk>>)
  /\ robots = File(Desired(DefaultOrigin))
  /\ InitProcess
  /\ root = TRUE
  /\ p2 = NoP2
  /\ InitOthers

NextListing == StartBuild \/ ScanDone \/ OpenFile \/ WriteChunk \/ Finish

SpecListing == InitListing /\ [][NextListing]_vars

\* ------------------------------------------------------- failing builds

\* globby rejects (the listing cannot be read): the rejection of the async
\* function is unhandled and the process exits with status 1
ScanFail ==
  /\ pc = "scanning"
  /\ pc' = "failed"
  /\ UNCHANGED <<nodeEnv, seo, vb, ui, rj, root, p2, fs, env, sitemap, robots, siteUrl, files, links,
                 flushed, existed, current, wroteRobots, last>>

\* the file stream cannot open public/sitemap.xml (public/ is missing, or
\* access is denied): its 'error' event has no listener, the process exits
\* with status 1
OpenFail ==
  /\ pc = "opening"
  /\ pc' = "failed"
  /\ UNCHANGED <<nodeEnv, seo, vb, ui, rj, root, p2, fs, env, sitemap, robots, siteUrl, files, links,
                 flushed, existed, current, wroteRobots, last>>

\* mutant: robots.txt is written although the write of sitemap.xml failed
WriteFailReconciles ==
  /\ pc = "piping"
  /\ flushed < Len(links) + 2
  /\ robots' = File(Desired(siteUrl))
  /\ wroteRobots' = TRUE
  /\ pc' = "failed"
  /\ UNCHANGED <<nodeEnv, seo, vb, ui, rj, root, p2, fs, env, sitemap, siteUrl, files, links, flushed,
                 existed, current, last>>

\* mutant: a write error is logged and the process exits with status 0
WriteFailSilent ==
  /\ pc = "piping"
  /\ flushed < Len(links) + 2
  /\ pc' = "done"
  /\ UNCHANGED <<nodeEnv, seo, vb, ui, rj, root, p2, fs, env, sitemap, robots, siteUrl, files, links,
                 flushed, existed, current, wroteRobots, last>>

\* a write of the file stream fails: its 'error' event has no listener, the
\* process exits with status 1 and the file keeps what was written
WriteFail ==
  /\ pc = "piping"
  /\ flushed < Len(links) + 2
  /\ pc' = "failed"
  /\ UNCHANGED <<nodeEnv, seo, vb, ui, rj, root, p2, fs, env, sitemap, robots, siteUrl, files, links,
                 flushed, existed, current, wroteRobots, last>>

\* readFileSync or writeFileSync throws in the finish handler: the exception
\* is uncaught, the process exits with status 1
RobotsFail ==
  /\ pc = "piping"
  /\ flushed = Len(links) + 2
  /\ existed' = robots.exists
  /\ pc' = "failed"
  /\ UNCHANGED <<nodeEnv, seo, vb, ui, rj, root, p2, fs, env, sitemap, robots, siteUrl, files, links,
                 flushed, current, wroteRobots, last>>

\* the output root as a build can find it: missing, or present with its pages
InitFail ==
  /\ root \in BOOLEAN
  /\ IF root
     THEN /\ fs \in SetsUpTo(Pages, MaxFiles)
          /\ sitemap = File(<<CommentChunk>>)
          /\ robots \in RobotsStates
     ELSE /\ fs = {}
          /\ sitemap = NoFile
          /\ robots = NoFile
  /\ env \in EnvValues
  /\ InitProcess
  /\ p2 = NoP2
  /\ InitOthers

NextFail == StartBuild \/ ScanDone \/ OpenFile \/ WriteChunk \/ Finish
              \/ ScanFail \/ OpenFail \/ WriteFail \/ RobotsFail

SpecFail == InitFail /\ [][NextFail]_vars

\* ------------------------------------------- two builds on one public/

\* a second process runs the same script on the same public/, with its own
\* environment; its position and locals are the fields of p2
P2Start ==
  /\ p2.pc = "idle"
  /\ \E e \in EnvValues :
       p2' = [pc |-> "scanning", siteUrl |-> SiteUrlOf(e), links |-> <<>>,
              flushed |-> 0]
  /\ UNCHANGED <<nodeEnv, seo, vb, ui, rj, root, fs, env, sitemap, robots, pc, siteUrl, files, links,
                 flushed, existed, current, wroteRobots, last>>

P2ScanDone ==
  /\ p2.pc = "scanning"
  /\ \E q \in Orderings(Globby(fs)) :
       p2' = [p2 EXCEPT !.pc = "opening", !.links = Links(q)]
  /\ UNCHANGED <<nodeEnv, seo, vb, ui, rj, root, fs, env, sitemap, robots, pc, siteUrl, files, links,
                 flushed, existed, current, wroteRobots, last>>

P2OpenFile ==
  /\ p2.pc = "opening"
  /\ root
  /\ sitemap' = File(<<>>)
  /\ p2' = [p2 EXCEPT !.pc = "piping"]
  /\ UNCHANGED <<nodeEnv, seo, vb, ui, rj, root, fs, env, robots, pc, siteUrl, files, links, flushed,
                 existed, current, wroteRobots, last>>

P2WriteChunk ==
  /\ p2.pc = "piping"
  /\ p2.flushed < Len(p2.links) + 2
  /\ sitemap' = File(WriteAt(sitemap.data, p2.flushed + 1,
                             Chunk(p2.siteUrl, p2.links, p2.flushed + 1)))
  /\ p2' = [p2 EXCEPT !.flushed = p2.flushed + 1]
  /\ UNCHANGED <<nodeEnv, seo, vb, ui, rj, root, fs, env, robots, pc, siteUrl, files, links, flushed,
                 existed, current, wroteRobots, last>>

P2Finish ==
  /\ p2.pc = "piping"
  /\ p2.flushed = Len(p2.links) + 2
  /\ LET desired == Desired(p2.siteUrl)
         cur == IF robots.exists THEN robots.data ELSE <<>>
     IN robots' = IF NeedsWrite(cur, desired) THEN File(desired) ELSE robots
  /\ p2' = [p2 EXCEPT !.pc = "done"]
  /\ UNCHANGED <<nodeEnv, seo, vb, ui, rj, root, fs, env, sitemap, pc, siteUrl, files, links, flushed,
                 existed, current, wroteRobots, last>>

\* public/ as the bootstrap leaves it, with some pages; no process started
InitRace ==
  /\ fs \in SetsUpTo(Pages, MaxFiles)
  /\ env \in EnvValues
  /\ sitemap = File(<<CommentChunk>>)
  /\ robots = File(Desired(DefaultOrigin))
  /\ root = TRUE
  /\ InitProcess
  /\ p2 = NoP2
  /\ InitOthers

NextRace == StartBuild \/ ScanDone \/ OpenFile \/ WriteChunk \/ Finish
              \/ P2Start \/ P2ScanDone \/ P2OpenFile \/ P2WriteChunk \/ P2Finish

SpecRace == InitRace /\ [][NextRace]_vars

\* -------------------------------------------------- the example site

\* the pages of the example: home, services, contact, the not-found page and
\* the acknowledgement page
ScenarioFiles ==
  {<<"public", SLASH, "index.html">>,
   <<"public", SLASH, "services", SLASH, "index.html">>,
   <<"public", SLASH, "contact", SLASH, "index.html">>,
   <<"public", SLASH, "404.html">>,
   <<"public", SLASH, "thanks", SLASH, "index.html">>}

\* the example site built with SITE_URL=https://www.example.com; robots.txt
\* is missing, empty, foreign, the bootstrap's, or already the directive
InitScenario ==
  /\ fs = ScenarioFiles
  /\ env = ExampleOrigin
  /\ sitemap = File(<<CommentChunk>>)
  /\ robots \in {NoFile, File(<<>>), File(<<"Disallow: /">>),
                 File(Desired(DefaultOrigin)), File(Desired(ExampleOrigin))}
  /\ root = TRUE
  /\ InitProcess
  /\ p2 = NoP2
  /\ InitOthers

SpecScenario == InitScenario /\ [][NextListing]_vars

\* ------------------------------------------- listings with backslashes

\* the other separator a listed path can carry
BACKSLASH == "\\"

\* the path p with every separator below public/ written as a backslash:
\* public/es/index.html becomes public/es\index.html
BackslashForm(p) ==
  [i \in 1..Len(p) |-> IF i > 2 /\ p[i] = SLASH THEN BACKSLASH ELSE p[i]]

\* the listed paths that carry a backslash
BackslashPaths == {BackslashForm(p) : p \in AllPaths} \ AllPaths

\* one file under public/ whose listed path carries a backslash
InitBackslash ==
  /\ fs \in {{p} : p \in BackslashPaths}
  /\ env \in EnvValues
  /\ sitemap = File(<<CommentChunk>>)
  /\ robots = File(Desired(DefaultOrigin))
  /\ root = TRUE
  /\ InitProcess
  /\ p2 = NoP2
  /\ InitOthers

SpecBackslash == InitBackslash /\ [][NextListing]_vars

\* --------------------------------------------------- scripts/robots.js

LocalOrigin == "http://localhost:5173"

\* the values of NODE_ENV
NodeEnvValues == {Unset, "production", "development"}

\* isProd ? 'https://www.gringo787.com' : 'http://localhost:5173'
SiteUrlOfNodeEnv(n) == IF n = "production" THEN DefaultOrigin ELSE LocalOrigin

\* mutant: the template has no blank line
RobotsContentNoBlank(origin) ==
  <<"User-agent: *", "\n", "Allow: /", "\n", "Sitemap: ", origin, "/sitemap.xml", "\n">>

\* const robotsContent: the template, with a blank line before the Sitemap
\* line
RobotsContent(origin) ==
  <<"User-agent: *", "\n", "Allow: /", "\n", "\n", "Sitemap: ", origin, "/sitemap.xml", "\n">>

\* mutant: robots.txt is written only when there is none
RobotsJsIfMissing ==
  /\ pc \in {"idle", "done"}
  /\ seo.pc \in {"idle", "done", "failed"}
  /\ root' = TRUE
  /\ robots' = IF robots.exists THEN robots
               ELSE File(RobotsContent(SiteUrlOfNodeEnv(nodeEnv)))
  /\ rj' = "done"
  /\ UNCHANGED <<nodeEnv, seo, vb, ui, p2, fs, env, sitemap, pc, siteUrl, files,
                 links, flushed, existed, current, wroteRobots, last>>

\* node scripts/robots.js: public/ is created when it is missing and
\* robots.txt is written, whatever it held
RobotsJs ==
  /\ pc \in {"idle", "done"}
  /\ seo.pc \in {"idle", "done", "failed"}
  /\ root' = TRUE
  /\ robots' = File(RobotsContent(SiteUrlOfNodeEnv(nodeEnv)))
  /\ rj' = "done"
  /\ UNCHANGED <<nodeEnv, seo, vb, ui, p2, fs, env, sitemap, pc, siteUrl, files,
                 links, flushed, existed, current, wroteRobots, last>>

\* NODE_ENV is set for the next script
SetNodeEnv ==
  /\ pc \in {"idle", "done"}
  /\ seo.pc \in {"idle", "done", "failed"}
  /\ \E n \in NodeEnvValues \ {nodeEnv} : nodeEnv' = n
  /\ rj' = "idle"
  /\ UNCHANGED <<seo, vb, ui, root, p2, fs, env, sitemap, robots, pc, siteUrl,
                 files, links, flushed, existed, current, wroteRobots, last>>

\* the builder and robots.js run one after the other on one public/
InitRobotsJs ==
  /\ fs \in SetsUpTo(Pages, MaxFiles)
  /\ env \in EnvValues
  /\ sitemap = File(<<CommentChunk>>)
  /\ robots \in RobotsStates
  /\ root = TRUE
  /\ InitProcess
  /\ p2 = NoP2
  /\ nodeEnv \in NodeEnvValues
  /\ seo = NoSeo
  /\ vb = NoVb
  /\ ui = NoUi
  /\ rj = "idle"

NextRobotsJs == StartBuild \/ ScanDone \/ OpenFile \/ WriteChunk \/ Finish
                  \/ RobotsJs \/ SetNodeEnv

SpecRobotsJs == InitRobotsJs /\ [][NextRobotsJs]_vars

\* ------------------------------------------------------ scripts/seo.js

\* isProd ? 'https://www.gringo787.com' : 'http://localhost:5173'
HostnameOfNodeEnv(n) == IF n = "production" THEN DefaultOrigin ELSE LocalOrigin

\* globby(['public/**/*.html', '!public/404.html']) on one path
SeoGlobSelects(p) ==
  /\ GlobMatches(GlobInclude, Segments(p))
  /\ ~GlobMatches(GlobNot404, Segments(p))

SeoGlobby(tree) == {p \in tree : SeoGlobSelects(p)}

\* mutant: a trailing index.html is kept
SeoUrlKeepIndex(page) ==
  LET stripped == StripRoot(page)
  IN [i \in 1..Len(stripped) |-> IF stripped[i] = BACKSLASH THEN SLASH ELSE stripped[i]]

\* page.replace(/^public/, '').replace(/index\.html$/, '').replace(/\\/g, '/')
SeoUrl(page) ==
  LET stripped == StripRoot(page)
      cut == IF stripped # <<>> /\ stripped[Len(stripped)] = "index.html"
             THEN SubSeq(stripped, 1, Len(stripped) - 1) ELSE stripped
  IN [i \in 1..Len(cut) |-> IF cut[i] = BACKSLASH THEN SLASH ELSE cut[i]]

\* urls, and the items urls.map(url => ({ url })) handed to the stream
SeoUrls(pageSeq) == [i \in 1..Len(pageSeq) |-> SeoUrl(pageSeq[i])]
SeoItems(urlSeq) ==
  [i \in 1..Len(urlSeq) |-> [url |-> urlSeq[i], changefreq |-> "", priority |-> 0]]

\* mutant: the file is opened for writing before the scan
SeoStartOpensFile ==
  /\ seo.pc \in {"idle", "done", "failed"}
  /\ pc \in {"idle", "done"}
  /\ sitemap' = IF root THEN File(<<>>) ELSE sitemap
  /\ seo' = [pc |-> "scanning", hostname |-> HostnameOfNodeEnv(nodeEnv),
             pages |-> <<>>, urls |-> <<>>, xml |-> <<>>, found |-> sitemap,
             exit |-> -1, at |-> "idle"]
  /\ UNCHANGED <<nodeEnv, vb, ui, rj, root, p2, fs, env, robots, pc, siteUrl,
                 files, links, flushed, existed, current, wroteRobots, last>>

\* node scripts/seo.js: hostname is chosen by NODE_ENV and the async function
\* awaits globby; found is sitemap.xml as this run found it
SeoStart ==
  /\ seo.pc \in {"idle", "done", "failed"}
  /\ pc \in {"idle", "done"}
  /\ seo' = [pc |-> "scanning", hostname |-> HostnameOfNodeEnv(nodeEnv),
             pages |-> <<>>, urls |-> <<>>, xml |-> <<>>, found |-> sitemap,
             exit |-> -1, at |-> "idle"]
  /\ UNCHANGED <<nodeEnv, vb, ui, rj, root, p2, fs, env, sitemap, robots, pc,
                 siteUrl, files, links, flushed, existed, current, wroteRobots,
                 last>>

\* globby resolves and the urls are derived
SeoScanDone ==
  /\ seo.pc = "scanning"
  /\ \E q \in Orderings(SeoGlobby(fs)) :
       seo' = [seo EXCEPT !.pc = "generating", !.pages = q, !.urls = SeoUrls(q)]
  /\ UNCHANGED <<nodeEnv, vb, ui, rj, root, p2, fs, env, sitemap, robots, pc,
                 siteUrl, files, links, flushed, existed, current, wroteRobots,
                 last>>

\* streamToPromise resolves with the whole document
SeoGenerated ==
  /\ seo.pc = "generating"
  /\ seo' = [seo EXCEPT !.pc = "writing",
                        !.xml = Document(seo.hostname, SeoItems(seo.urls))]
  /\ UNCHANGED <<nodeEnv, vb, ui, rj, root, p2, fs, env, sitemap, robots, pc,
                 siteUrl, files, links, flushed, existed, current, wroteRobots,
                 last>>

\* globby or streamToPromise rejects: the catch block logs the error and
\* calls process.exit(1)
SeoFail ==
  /\ seo.pc \in {"scanning", "generating"}
  /\ seo' = [seo EXCEPT !.pc = "failed", !.exit = 1, !.at = seo.pc]
  /\ UNCHANGED <<nodeEnv, vb, ui, rj, root, p2, fs, env, sitemap, robots, pc,
                 siteUrl, files, links, flushed, existed, current, wroteRobots,
                 last>>

\* writeFileSync(sitemapPath, xml.toString())
SeoWrite ==
  /\ seo.pc = "writing"
  /\ root
  /\ sitemap' = File(seo.xml)
  /\ seo' = [seo EXCEPT !.pc = "done", !.exit = 0]
  /\ UNCHANGED <<nodeEnv, vb, ui, rj, root, p2, fs, env, robots, pc, siteUrl,
                 files, links, flushed, existed, current, wroteRobots, last>>

\* writeFileSync throws: the file could not be opened (it is as it was), or
\* it was opened, which truncates it, and the write failed
SeoWriteFail ==
  /\ seo.pc = "writing"
  /\ sitemap' \in {sitemap} \cup (IF root THEN {File(<<>>)} ELSE {})
  /\ seo' = [seo EXCEPT !.pc = "failed", !.exit = 1, !.at = "writing"]
  /\ UNCHANGED <<nodeEnv, vb, ui, rj, root, p2, fs, env, robots, pc, siteUrl,
                 files, links, flushed, existed, current, wroteRobots, last>>

\* public/ missing or as the bootstrap left it, with some pages; neither
\* script has run
InitScripts ==
  /\ root \in BOOLEAN
  /\ IF root
     THEN /\ fs \in SetsUpTo(Pages, MaxFiles)
          /\ sitemap = File(<<CommentChunk>>)
          /\ robots \in RobotsStates
     ELSE /\ fs = {}
          /\ sitemap = NoFile
          /\ robots = NoFile
  /\ env = Unset
  /\ InitProcess
  /\ p2 = NoP2
  /\ nodeEnv \in NodeEnvValues
  /\ seo = NoSeo
  /\ vb = NoVb
  /\ ui = NoUi
  /\ rj = "idle"

NextScripts == SeoStart \/ SeoScanDone \/ SeoGenerated \/ SeoFail \/ SeoWrite
                 \/ SeoWriteFail \/ RobotsJs \/ SetNodeEnv

SpecScripts == InitScripts /\ [][NextScripts]_vars

\* -------------------------------------------- scripts/validate-build.js

\* the references a page can carry: the value of an href or src attribute,
\* <<>> for an empty one
RefLinks ==
  {<<>>, <<"styles.css">>, <<SLASH, "styles.css">>,
   <<SLASH, "styles.css", "?", "v=1">>, <<SLASH, "app.js">>, <<"?", "v=1">>}

\* the assets that can exist under dist/
AssetPaths == {<<"styles.css">>, <<"app.js">>}

\* what readdirSync can return besides the pages: a file that is not HTML
\* and a directory whose name ends in .html
DistEntries ==
  {[name |-> "index.html", file |-> TRUE], [name |-> "about.html", file |-> TRUE],
   [name |-> "notes.txt", file |-> TRUE], [name |-> "archive.html", file |-> FALSE]}

\* the sequences over S of length at most n
RECURSIVE SeqsUpTo(_, _)
SeqsUpTo(S, n) ==
  IF n = 0 THEN {<<>>}
  ELSE SeqsUpTo(S, n - 1) \cup
       {Append(q, x) : q \in {r \in SeqsUpTo(S, n - 1) : Len(r) = n - 1}, x \in S}

\* f.isFile() && f.name.endsWith(".html")
HtmlFiles(entries) ==
  {e.name : e \in {d \in entries :
                     d.file /\ d.name \in {"index.html", "about.html", "archive.html"}}}

\* link.split("?")[0]
CleanLink(link) ==
  IF \A i \in 1..Len(link) : link[i] # "?" THEN link
  ELSE SubSeq(link, 1, Min({i \in 1..Len(link) : link[i] = "?"}) - 1)

\* fs.existsSync(path.join(distDir, cleanLink.replace(/^\//, ""))): an empty
\* path is dist/ itself
AssetExists(present, link) ==
  LET clean == CleanLink(link)
      rel == IF clean # <<>> /\ Head(clean) = SLASH THEN Tail(clean) ELSE clean
  IN rel = <<>> \/ rel \in present

\* mutant: the inner loop stops at the first missing asset of a file
MissingInFirst(v, name) ==
  LET miss == SelectSeq(v.refs[name],
                        LAMBDA l : l # <<>> /\ ~AssetExists(v.present, l))
  IN IF miss = <<>> THEN <<>> ELSE <<[html |-> name, asset |-> miss[1]]>>

\* the inner loop over the links of one file: what it pushes on
\* missingAssets
MissingIn(v, name) ==
  LET miss == SelectSeq(v.refs[name],
                        LAMBDA l : l # <<>> /\ ~AssetExists(v.present, l))
  IN [i \in 1..Len(miss) |-> [html |-> name, asset |-> miss[i]]]

\* node scripts/validate-build.js: without dist/ it reports and exits with
\* status 1; otherwise it lists the HTML files directly inside dist/
VbStart ==
  /\ vb.pc = "idle"
  /\ IF ~vb.dist
     THEN vb' = [vb EXCEPT !.pc = "failed", !.exit = 1]
     ELSE \E q \in Orderings(HtmlFiles(vb.entries)) :
            vb' = [vb EXCEPT !.pc = "checking", !.todo = q]
  /\ UNCHANGED <<fs, env, sitemap, robots, pc, siteUrl, files, links, flushed,
                 existed, current, wroteRobots, last, root, p2, nodeEnv, seo, ui,
                 rj>>

\* one turn of the outer loop: the next file is read and its links checked
VbCheckFile ==
  /\ vb.pc = "checking"
  /\ vb.todo # <<>>
  /\ vb' = [vb EXCEPT !.todo = Tail(vb.todo),
                      !.missingAssets = vb.missingAssets \o MissingIn(vb, Head(vb.todo))]
  /\ UNCHANGED <<fs, env, sitemap, robots, pc, siteUrl, files, links, flushed,
                 existed, current, wroteRobots, last, root, p2, nodeEnv, seo, ui,
                 rj>>

\* after the loop: every missing asset is reported and the exit status is 1,
\* or the success message is printed and the script ends
VbReport ==
  /\ vb.pc = "checking"
  /\ vb.todo = <<>>
  /\ IF Len(vb.missingAssets) > 0
     THEN vb' = [vb EXCEPT !.pc = "failed", !.reported = vb.missingAssets, !.exit = 1]
     ELSE vb' = [vb EXCEPT !.pc = "done", !.ok = TRUE, !.exit = 0]
  /\ UNCHANGED <<fs, env, sitemap, robots, pc, siteUrl, files, links, flushed,
                 existed, current, wroteRobots, last, root, p2, nodeEnv, seo, ui,
                 rj>>

\* dist/ as a build can leave it: missing, or holding pages with their
\* references, other entries and some assets
InitValidate ==
  /\ fs = {}
  /\ env = Unset
  /\ sitemap = NoFile
  /\ robots = NoFile
  /\ root = TRUE
  /\ InitProcess
  /\ p2 = NoP2
  /\ nodeEnv = Unset
  /\ seo = NoSeo
  /\ ui = NoUi
  /\ rj = "idle"
  /\ \/ vb = NoVb
     \/ \E entries \in SUBSET DistEntries, present \in SUBSET AssetPaths,
           r1 \in SeqsUpTo(RefLinks, MaxRefs), r2 \in SeqsUpTo(RefLinks, 1) :
          vb = [NoVb EXCEPT
                  !.dist = TRUE, !.entries = entries, !.present = present,
                  !.refs = [n \in {e.name : e \in entries} |->
                              IF n = "index.html" THEN r1
                              ELSE IF n = "about.html" THEN r2
                              ELSE <<(<<SLASH, "app.js">>)>>]]

NextValidate == VbStart \/ VbCheckFile \/ VbReport

SpecValidate == InitValidate /\ [][NextValidate]_vars

\* ------------------------------------------------------------ script.js

\* the values of the attribute aria-expanded: not there, or one of its texts
AriaValues == {"absent", "false", "true", "menu"}

\* script.js runs in the page: AOS.init throws when the AOS library is not
\* there and the script ends; otherwise the click handler is installed when
\* both elements are found
UiLoad ==
  /\ ui.pc = "idle"
  /\ ui' = IF ~ui.aos THEN [ui EXCEPT !.pc = "crashed"]
           ELSE [ui EXCEPT !.pc = "loaded", !.installed = ui.hamburger /\ ui.menu]
  /\ UNCHANGED <<fs, env, sitemap, robots, pc, siteUrl, files, links, flushed,
                 existed, current, wroteRobots, last, root, p2, nodeEnv, seo, vb,
                 rj>>

\* mutant: the handler hides the menu instead of toggling it
UiClickHides ==
  /\ ui.pc \in {"loaded", "crashed"}
  /\ ui.hamburger
  /\ ui.clicks < MaxClicks
  /\ ui' = IF ui.installed
           THEN [ui EXCEPT !.expanded = IF ui.expanded = "true" THEN "false" ELSE "true",
                           !.hidden = TRUE,
                           !.clicks = ui.clicks + 1]
           ELSE [ui EXCEPT !.clicks = ui.clicks + 1]
  /\ UNCHANGED <<fs, env, sitemap, robots, pc, siteUrl, files, links, flushed,
                 existed, current, wroteRobots, last, root, p2, nodeEnv, seo, vb,
                 rj>>

\* a click on the hamburger: the installed handler sets aria-expanded to the
\* text of the negation of (aria-expanded === 'true') and toggles the class
\* hidden of the menu; without a handler nothing changes
UiClick ==
  /\ ui.pc \in {"loaded", "crashed"}
  /\ ui.hamburger
  /\ ui.clicks < MaxClicks
  /\ ui' = IF ui.installed
           THEN [ui EXCEPT !.expanded = IF ui.expanded = "true" THEN "false" ELSE "true",
                           !.hidden = ~ui.hidden,
                           !.clicks = ui.clicks + 1]
           ELSE [ui EXCEPT !.clicks = ui.clicks + 1]
  /\ UNCHANGED <<fs, env, sitemap, robots, pc, siteUrl, files, links, flushed,
                 existed, current, wroteRobots, last, root, p2, nodeEnv, seo, vb,
                 rj>>

\* a page as it can be served: with or without the AOS library, the
\* hamburger and the menu, the attribute and the class as the markup has them
InitNav ==
  /\ fs = {}
  /\ env = Unset
  /\ sitemap = NoFile
  /\ robots = NoFile
  /\ root = TRUE
  /\ InitProcess
  /\ p2 = NoP2
  /\ nodeEnv = Unset
  /\ seo = NoSeo
  /\ vb = NoVb
  /\ rj = "idle"
  /\ \E a, h, m, hid \in BOOLEAN, x \in AriaValues :
       /\ ~h => x = "absent"
       /\ ~m => ~hid
       /\ ui = [NoUi EXCEPT !.aos = a, !.hamburger = h, !.menu = m,
                            !.expanded = x, !.hidden = hid,
                            !.first = [expanded |-> x, hidden |-> hid]]

NextNav == UiLoad \/ UiClick

SpecNav == InitNav /\ [][NextNav]_vars

\* ------------------------------------------------- vocabulary of the claims

\* pat occurs in s
Includes(s, pat) == Occurrences(s, pat) # {}

\* the documented collapse: the trailing suffix suf of s is replaced by rep
ReplaceSuffix(s, suf, rep) ==
  IF EndsWith(s, suf) THEN SubSeq(s, 1, Len(s) - Len(suf)) \o rep ELSE s

\* the file name ends in .html
IsHtmlFile(p) == p[Len(p)] \in HtmlAtoms

\* the site's not-found page
IsNotFoundPage(p) == p = <<"public", SLASH, "404.html">>

\* a thank-you page: the index of a directory named thanks, at any depth
IsThanksPage(p) == EndsWith(p, <<SLASH, "thanks", SLASH, "index.html">>)

IsExcluded(p) == IsNotFoundPage(p) \/ IsThanksPage(p)

\* the pages of a file tree that belong in the sitemap
Eligible(tree) == {p \in tree : IsHtmlFile(p) /\ ~IsExcluded(p)}

\* the links have been derived from the scanned files
Derived == pc \in {"opening", "piping", "done"}

\* the origin the environment configures
Origin == SiteUrlOf(env)

\* the documented priority table, in the documented order of precedence
DocPriority(path) ==
  IF path = <<SLASH>> THEN 10
  ELSE IF \/ StartsWith(path, <<SLASH, "contact">>)
          \/ StartsWith(path, <<SLASH, "es", SLASH, "contact", "o">>) THEN 9
  ELSE IF \/ StartsWith(path, <<SLASH, "services">>)
          \/ StartsWith(path, <<SLASH, "es", SLASH, "servicios">>) THEN 8
  ELSE 7

\* --------------------------------------------------------------- the claims

\* C1: after a build the number of <url> entries of sitemap.xml is the number
\* of HTML files under public/ minus the number of excluded ones (the
\* not-found page and the thank-you pages), and no two entries are the same.
C1_EntryCount ==
  pc = "done" =>
    /\ Len(UrlsOf(sitemap.data)) =
         Cardinality({p \in fs : IsHtmlFile(p)})
           - Cardinality({p \in fs : IsHtmlFile(p) /\ IsExcluded(p)})
    /\ \A i, j \in 1..Len(UrlsOf(sitemap.data)) :
         UrlsOf(sitemap.data)[i] = UrlsOf(sitemap.data)[j] => i = j

\* a build over two HTML files, one of them excluded, has emitted one entry
C1_Witness ==
  /\ pc = "done"
  /\ Cardinality({p \in fs : IsHtmlFile(p)}) = 2
  /\ Cardinality({p \in fs : IsExcluded(p)}) = 1
  /\ Len(UrlsOf(sitemap.data)) = 1

C3_SuffixCollapsed ==
  Derived =>
    \A i \in 1..Len(files) :
      links[i].url =
        ReplaceSuffix(StripRoot(files[i]), <<SLASH, "index.html">>, <<SLASH>>)

\* C4 as stated: no URL of the sitemap contains index.html.
C4_NoIndexHtmlAnywhere ==
  \A i \in 1..Len(sitemap.data) : ~Includes(sitemap.data[i].loc, <<"index.html">>)

\* index.html occurs in u at most as the complete last component
OnlyTrailingIndex(u) ==
  \A k \in Occurrences(u, <<"index.html">>) : k = Len(u) /\ u[k - 1] = SLASH

\* C4, amended: the URL emitted for a file in whose path index.html occurs
\* at most as the complete name of the last component does not contain
\* index.html.
C4_NoIndexHtml ==
  pc = "done" =>
    \A i \in 1..Len(files) :
      OnlyTrailingIndex(StripRoot(files[i])) =>
        ~Includes(UrlsOf(sitemap.data)[i].loc, <<"index.html">>)

\* the index page of /es/ has been emitted as /es/
C4_Witness ==
  /\ pc = "done"
  /\ files = <<<<"public", SLASH, "es", SLASH, "index.html">>>>
  /\ UrlsOf(sitemap.data)[1].loc = <<siteUrl, SLASH, "es", SLASH>>

\* C5: the priority of every link is the one the documented table gives its
\* path: 1.0 for /, else 0.9 under /contact or /es/contacto, else 0.8 under
\* /services or /es/servicios, else 0.7.
C5_Priority ==
  Derived =>
    \A i \in 1..Len(links) : links[i].priority = DocPriority(links[i].url)

\* /es/ has been given 0.7
C5_Witness ==
  /\ Derived
  /\ Len(links) = 1
  /\ links[1].url = <<SLASH, "es", SLASH>>
  /\ links[1].priority = 7

\* the three-line directive for an origin, with its final newline
Directive(origin) ==
  <<"User-agent: *", "\n", "Allow: /", "\n", "Sitemap: ", origin, "/sitemap.xml", "\n">>

\* C6: when the robots.txt the build finds equals, after trimming, the
\* trimmed directive for the configured origin, the build does not write
\* robots.txt and its content stays what it was.
C6_NoWriteWhenUpToDate ==
  (pc = "done" /\ existed /\ Trim(current) = Trim(Directive(Origin))) =>
    /\ ~wroteRobots
    /\ robots = File(current)

\* a robots.txt that differs from the directive by blank space only has been
\* left as it was
C6_Witness ==
  /\ pc = "done"
  /\ existed
  /\ current = <<"\n">> \o Directive(Origin) \o <<" ">>
  /\ ~wroteRobots
  /\ robots = File(current)

\* C7: when robots.txt is missing, or its trimmed content differs from the
\* trimmed directive for the configured origin, then after the build
\* robots.txt holds exactly that directive.
C7_WrittenWhenStale ==
  (pc = "done" /\ (~existed \/ Trim(current) # Trim(Directive(Origin)))) =>
    robots = File(Directive(Origin))

\* a robots.txt naming another origin has been replaced
C7_Witness ==
  /\ pc = "done"
  /\ existed
  /\ \E o \in Origins \ {Origin} : current = Directive(o)
  /\ wroteRobots
  /\ robots = File(Directive(Origin))

\* a missing robots.txt has been created
C7_WitnessMissing ==
  /\ pc = "done"
  /\ ~existed
  /\ robots = File(Directive(Origin))

\* C8 as stated: a build that starts right after a finished build, with
\* nothing changed between, leaves sitemap.xml as that build left it and
\* does not write robots.txt.
C8_Idempotent ==
  (pc = "done" /\ last.valid) =>
    /\ sitemap.data = last.data
    /\ ~wroteRobots

\* the half of C8 about robots.txt
C8_SecondRunNoRobotsWrite ==
  (pc = "done" /\ last.valid) => ~wroteRobots

\* C9 as stated: after every build robots.txt is exactly the directive.
C9_ExactDirective ==
  pc = "done" => robots = File(Directive(Origin))

\* C9, amended: after every build robots.txt exists and its content is the
\* three-line directive for the configured origin up to leading and trailing
\* white space.
C9_DirectiveUpToTrim ==
  pc = "done" =>
    /\ robots.exists
    /\ Trim(robots.data) = Trim(Directive(Origin))

\* after a build robots.txt is the directive without its final newline
C9_Witness ==
  /\ pc = "done"
  /\ robots = File(TrimEnd(Directive(Origin)))

\* C10: after a build sitemap.xml is the document of the eligible pages now
\* under public/ and of the configured origin, in some order, whatever the
\* file held before.
C10_Regenerated ==
  pc = "done" =>
    \E q \in Orderings(Eligible(fs)) :
      sitemap.data = Document(Origin, Links(q))

\* the file held an entry before the build that it does not hold after it
C10_Witness ==
  /\ pc = "done"
  /\ \E i \in 1..Len(last.data) :
       /\ last.data[i].kind = "url"
       /\ \A j \in 1..Len(sitemap.data) : sitemap.data[j] # last.data[i]
  /\ Len(UrlsOf(sitemap.data)) > 0

\* the order of the steps of one run: scan, derivation, sitemap write,
\* robots reconciliation
RunOrder ==
  {<<"idle", "scanning">>, <<"done", "scanning">>, <<"scanning", "opening">>,
   <<"opening", "piping">>, <<"piping", "done">>}

\* what each position of a run has and has not done yet
C11_Positions ==
  /\ pc = "scanning" =>
       /\ files = <<>> /\ links = <<>>
       /\ sitemap.data = last.data
  /\ pc = "opening" =>
       /\ links = [i \in 1..Len(files) |-> Link(files[i])]
       /\ sitemap.data = last.data
       /\ flushed = 0
  /\ pc \in {"scanning", "opening", "piping"} =>
       /\ ~existed /\ current = <<>> /\ ~wroteRobots

\* what a step of a run may do, given the position it is taken at
C11_Steps ==
  /\ (pc' # pc /\ pc' # "idle") => <<pc, pc'>> \in RunOrder
  /\ (files' # files /\ pc' # "idle" /\ pc' # "scanning") => pc = "scanning"
  /\ (links' # links /\ pc' # "idle" /\ pc' # "scanning") => pc = "scanning"
  /\ sitemap' # sitemap =>
       /\ pc \in {"opening", "piping"}
       /\ links = [i \in 1..Len(files) |-> Link(files[i])]
  /\ ((robots' # robots \/ existed' # existed \/ wroteRobots' # wroteRobots)
        /\ pc \notin {"idle", "done"}) =>
       /\ pc = "piping" /\ pc' = "done"
       /\ sitemap.data = Document(siteUrl, links)
       /\ sitemap' = sitemap

\* C11: within one run the steps happen in strict sequence, each once: the
\* scan ends before a link is derived, every link is derived before the
\* sitemap file is opened, and robots.txt is read and written only after the
\* whole sitemap document is in the file.
C11_StrictSequence == [](C11_Positions) /\ [][C11_Steps]_vars

\* a run over two pages has written the whole sitemap and then robots.txt
C11_Witness ==
  /\ pc = "done"
  /\ Len(links) = 2
  /\ sitemap.data = Document(siteUrl, links)
  /\ wroteRobots

\* C12: when public/ does not exist the run never opens sitemap.xml and never
\* ends with status 0, it creates neither output file nor the directory, and
\* once it has failed nothing more happens.
C12_MissingRootFails ==
  /\ [](~root => /\ pc \notin {"piping", "done"}
                 /\ sitemap = NoFile
                 /\ robots = NoFile
                 /\ ~wroteRobots)
  /\ [][/\ ~root => ~root'
        /\ pc = "failed" => pc' = "failed"]_vars

\* a run without public/ has ended with status 1
C12_Witness ==
  /\ ~root
  /\ pc = "failed"
  /\ sitemap = NoFile
  /\ robots = NoFile

\* C14: a run that ends with status 0 leaves sitemap.xml the complete document
\* of the eligible pages and the origin, and robots.txt the directive of the
\* origin up to surrounding white space; every other end of a run is a
\* failure with status 1.
C14_NoPartialSuccess ==
  pc = "done" =>
    /\ \E q \in Orderings(Eligible(fs)) :
         sitemap.data = [k \in 1..(Len(q) + 2) |-> Chunk(Origin, Links(q), k)]
    /\ robots.exists
    /\ Trim(robots.data) = Trim(Directive(Origin))
    /\ flushed = Len(links) + 2

\* a run has failed with sitemap.xml partially written
C14_Witness ==
  /\ pc = "failed"
  /\ root
  /\ sitemap.exists
  /\ Len(sitemap.data) > 0
  /\ Len(sitemap.data) < Len(links) + 2

\* C15: once two builds on the same public/ have both finished, sitemap.xml is
\* the complete document of one of the two and robots.txt is the directive of
\* one of the two.
C15_LastWriterWins ==
  (pc = "done" /\ p2.pc = "done") =>
    /\ sitemap.data \in {Document(siteUrl, links), Document(p2.siteUrl, p2.links)}
    /\ robots.data \in {Directive(siteUrl), Directive(p2.siteUrl)}

\* C16: two runs over the same published files emit the entries in the same
\* order: a run that follows a finished run, nothing having changed in
\* between, leaves the locations of sitemap.xml in the order it found them.
C16_ReproducibleOrder ==
  (pc = "done" /\ last.valid) =>
    [i \in 1..Len(UrlsOf(sitemap.data)) |-> UrlsOf(sitemap.data)[i].loc]
      = [i \in 1..Len(UrlsOf(last.data)) |-> UrlsOf(last.data)[i].loc]

\* C17: a finished run used SITE_URL when it is set and
\* https://www.gringo787.com when it is not; every location of sitemap.xml is
\* that origin followed by the path of its link, and the Sitemap line of
\* robots.txt is that origin followed by /sitemap.xml.
C17_OneOrigin ==
  pc = "done" =>
    LET o == IF env = "undefined" THEN "https://www.gringo787.com" ELSE env
    IN /\ siteUrl = o
       /\ Len(sitemap.data) = Len(links) + 2
       /\ \A k \in 1..Len(links) :
            /\ sitemap.data[k + 1].kind = "url"
            /\ sitemap.data[k + 1].loc = <<o>> \o links[k].url
       /\ \E i \in 1..Len(robots.data) :
            /\ robots.data[i] = "Sitemap: "
            /\ i + 2 <= Len(robots.data)
            /\ robots.data[i + 1] = o
            /\ robots.data[i + 2] = "/sitemap.xml"
       /\ \A i \in 1..Len(robots.data) :
            robots.data[i] = "Sitemap: " =>
              (i < Len(robots.data) /\ robots.data[i + 1] = o)

\* a run with SITE_URL set has written both files
C17_Witness ==
  /\ pc = "done"
  /\ env = ExampleOrigin
  /\ Len(links) = 2
  /\ wroteRobots
  /\ sitemap.data[2].loc[1] = ExampleOrigin
  /\ Includes(robots.data, <<ExampleOrigin, "/sitemap.xml">>)

\* a run without SITE_URL has written sitemap.xml with the default origin
C17_WitnessDefault ==
  /\ pc = "done"
  /\ env = Unset
  /\ Len(links) >= 1
  /\ sitemap.data[2].loc[1] = DefaultOrigin

\* C18: for the example site (home, services, contact, 404 and thanks pages)
\* built with the origin https://www.example.com, sitemap.xml has exactly the
\* three entries / (1.0), /services/ (0.8) and /contact/ (0.9) under that
\* origin, and robots.txt is exactly the directive naming
\* https://www.example.com/sitemap.xml.
C18_Scenario ==
  pc = "done" =>
    /\ Len(sitemap.data) = 5
    /\ Len(UrlsOf(sitemap.data)) = 3
    /\ {<<c.loc, c.priority>> : c \in {sitemap.data[k] : k \in 2..4}}
         = {<<(<<"https://www.example.com", "/">>), 10>>,
            <<(<<"https://www.example.com", "/", "services", "/">>), 8>>,
            <<(<<"https://www.example.com", "/", "contact", "/">>), 9>>}
    /\ robots.exists
    /\ robots.data = <<"User-agent: *", "\n", "Allow: /", "\n", "Sitemap: ",
                       "https://www.example.com", "/sitemap.xml", "\n">>

\* the example site has been built and robots.txt written
C18_Witness ==
  /\ pc = "done"
  /\ fs = ScenarioFiles
  /\ Len(links) = 3
  /\ sitemap.data[1].kind = "head"
  /\ sitemap.data[5].kind = "tail"
  /\ wroteRobots
  /\ ~existed

\* C19: the url derived from a listed path that carries backslashes has
\* forward slashes only, and when the path is a directory index written with
\* backslashes the url is the one of the same path written with forward
\* slashes: its directory, with a final slash.
C19_SeparatorsNormalized ==
  Derived =>
    \A i \in 1..Len(files) :
      /\ \A k \in 1..Len(links[i].url) : links[i].url[k] # "\\"
      /\ LET fwd == [k \in 1..Len(files[i]) |->
                       IF files[i][k] = "\\" THEN "/" ELSE files[i][k]]
         IN EndsWith(fwd, <<"/", "index.html">>) =>
              links[i].url = ReplaceSuffix(Tail(fwd), <<"/", "index.html">>, <<"/">>)

\* C20: what is left of a listed path once the prefix public is stripped is
\* not empty and begins with /, it is the path without exactly that prefix,
\* and so the path of every link begins with /.
C20_RootRelative ==
  Derived =>
    \A i \in 1..Len(files) :
      /\ StripRoot(files[i]) # <<>>
      /\ Head(StripRoot(files[i])) = "/"
      /\ <<"public">> \o StripRoot(files[i]) = files[i]
      /\ links[i].url # <<>>
      /\ Head(links[i].url) = "/"

\* the link of a page two directories below public/ has been derived
C20_Witness ==
  /\ Derived
  /\ Len(files) = 1
  /\ files[1] = <<"public", "/", "es", "/", "servicios", "/", "index.html">>
  /\ links[1].url = <<"/", "es", "/", "servicios", "/">>

\* the three conditions of the priority table
IsHomePath(path) == path = <<"/">>
IsServicesPath(path) ==
  StartsWith(path, <<"/", "services">>) \/ StartsWith(path, <<"/", "es", "/", "servicios">>)
IsContactPath(path) ==
  StartsWith(path, <<"/", "contact">>) \/ StartsWith(path, <<"/", "es", "/", "contact", "o">>)

\* C21: no path satisfies two of the conditions home, services and contact,
\* and the priority the code gives a path, testing home, services, contact in
\* that order, is the one the order home, contact, services gives.
C21_OrderIrrelevant ==
  Derived =>
    \A i \in 1..Len(links) :
      LET u == links[i].url
      IN /\ ~(IsHomePath(u) /\ IsServicesPath(u))
         /\ ~(IsHomePath(u) /\ IsContactPath(u))
         /\ ~(IsServicesPath(u) /\ IsContactPath(u))
         /\ links[i].priority =
              (IF IsHomePath(u) THEN 10
               ELSE IF IsContactPath(u) THEN 9
               ELSE IF IsServicesPath(u) THEN 8 ELSE 7)
         /\ links[i].priority =
              (IF IsHomePath(u) THEN 10
               ELSE IF IsServicesPath(u) THEN 8
               ELSE IF IsContactPath(u) THEN 9 ELSE 7)

\* a page under /es/contacto, which a looser services test would take
C21_Witness ==
  /\ Derived
  /\ Len(links) = 1
  /\ links[1].url = <<"/", "es", "/", "contact", "o", "/">>
  /\ links[1].priority = 9

\* a page whose path names both services and contact
C21_WitnessBoth ==
  /\ Derived
  /\ Len(links) = 1
  /\ links[1].url = <<"/", "contact", "/", "services", "/">>
  /\ links[1].priority = 9

\* C22: robots.txt is read and written, and the run ends with its success
\* message, only in the step taken once every chunk of the document is in
\* sitemap.xml; a run whose write of sitemap.xml failed or did not finish has
\* neither read nor written robots.txt.
C22_OnlyThroughFinish ==
  /\ []((pc \in {"scanning", "opening", "piping", "failed"}
           /\ flushed < Len(links) + 2) =>
          /\ ~wroteRobots
          /\ ~existed
          /\ current = <<>>)
  /\ [][((robots' # robots \/ wroteRobots' # wroteRobots \/ existed' # existed
            \/ current' # current \/ pc' = "done") /\ pc' # "scanning") =>
          /\ pc = "piping"
          /\ flushed = Len(links) + 2
          /\ sitemap.data = [k \in 1..(Len(links) + 2) |-> Chunk(siteUrl, links, k)]]_vars

\* the write of sitemap.xml failed half way and the stale robots.txt is as
\* it was
C22_Witness ==
  /\ pc = "failed"
  /\ flushed > 0
  /\ flushed < Len(links) + 2
  /\ siteUrl = ExampleOrigin
  /\ robots = File(Directive(DefaultOrigin))
  /\ ~wroteRobots

\* C23: the builder never takes the robots.txt of scripts/robots.js for up
\* to date, whatever the two origins: a build that finds it writes
\* robots.txt, what robots.js writes is never the directive of the builder
\* up to trimming, and a run of robots.js on what a build wrote changes it
\* again, so no content of robots.txt is left untouched by both scripts.
C23_NeverSettles ==
  /\ []((pc = "done" /\ existed
           /\ \E o \in {"https://www.gringo787.com", "http://localhost:5173"} :
                current = <<"User-agent: *", "\n", "Allow: /", "\n", "\n",
                            "Sitemap: ", o, "/sitemap.xml", "\n">>) =>
          wroteRobots)
  /\ [][(pc' = pc /\ pc \in {"idle", "done"} /\ nodeEnv' = nodeEnv
           /\ robots' # robots) =>
          /\ robots'.exists
          /\ \A e \in EnvValues :
               Trim(robots'.data) # Trim(Directive(IF e = "undefined"
                                                   THEN "https://www.gringo787.com"
                                                   ELSE e))]_vars
  /\ [][(pc' = pc /\ pc = "done" /\ nodeEnv' = nodeEnv /\ wroteRobots
           /\ robots = File(Directive(siteUrl))) => robots' # robots]_vars

\* the builder has found the robots.txt robots.js wrote for the origin the
\* builder uses itself, and has written over it
C23_Witness ==
  /\ pc = "done"
  /\ nodeEnv = "production"
  /\ siteUrl = DefaultOrigin
  /\ existed
  /\ current = RobotsContent(DefaultOrigin)
  /\ wroteRobots
  /\ robots = File(Directive(DefaultOrigin))

\* robots.js has written over what the builder wrote for the same origin
C23_WitnessBack ==
  /\ pc = "done"
  /\ nodeEnv = "production"
  /\ siteUrl = DefaultOrigin
  /\ wroteRobots
  /\ robots = File(RobotsContent(DefaultOrigin))

\* the origin the two NODE_ENV scripts are to use in the present environment
NodeEnvOrigin ==
  IF nodeEnv = "production" THEN "https://www.gringo787.com"
  ELSE "http://localhost:5173"

\* C24: once scripts/robots.js has run, public/ exists and robots.txt is the
\* template with the blank line for https://www.gringo787.com when NODE_ENV
\* is production and for http://localhost:5173 otherwise, whatever was there
\* before; a running scripts/seo.js has taken the same origin for its
\* hostname, and the locations it writes carry it.
C24_RobotsJsUnconditional ==
  /\ [](rj = "done" =>
          /\ root
          /\ robots = File(<<"User-agent: *", "\n", "Allow: /", "\n", "\n",
                             "Sitemap: ", NodeEnvOrigin, "/sitemap.xml", "\n">>))
  /\ [](seo.pc \in {"scanning", "generating", "writing"} =>
          seo.hostname = NodeEnvOrigin)
  /\ [][(seo.pc = "writing" /\ seo'.pc = "done") =>
          \A k \in 1..Len(sitemap'.data) :
            sitemap'.data[k].kind = "url" =>
              Head(sitemap'.data[k].loc) = NodeEnvOrigin]_vars

\* robots.js and seo.js have both run in production, robots.js over a
\* foreign robots.txt
C24_Witness ==
  /\ rj = "done"
  /\ nodeEnv = "production"
  /\ robots = File(RobotsContent(DefaultOrigin))
  /\ seo.pc = "done"
  /\ Len(seo.urls) = 2
  /\ sitemap.data[2].loc[1] = DefaultOrigin

\* robots.js has run where public/ was missing
C24_WitnessNoRoot ==
  /\ rj = "done"
  /\ nodeEnv = Unset
  /\ root
  /\ sitemap = NoFile
  /\ robots = File(RobotsContent(LocalOrigin))

\* C25: scripts/seo.js changes sitemap.xml only in the step that writes the
\* whole generated document; while it scans and generates, and after a
\* failure of the scan or of the generation, which ends it with exit code 1,
\* sitemap.xml is as the run found it.
C25_WriteAfterGeneration ==
  /\ [](seo.pc \in {"scanning", "generating"} => sitemap = seo.found)
  /\ []((seo.pc = "failed" /\ seo.at \in {"scanning", "generating"}) =>
          /\ seo.exit = 1
          /\ sitemap = seo.found)
  /\ [][sitemap' # sitemap =>
          /\ seo.pc = "writing"
          /\ seo.xml = [k \in 1..(Len(seo.urls) + 2) |->
                          Chunk(seo.hostname, SeoItems(seo.urls), k)]
          /\ (sitemap' = File(seo.xml) \/ seo'.pc = "failed")]_vars

\* the generation has failed and the placeholder is still in sitemap.xml
C25_Witness ==
  /\ seo.pc = "failed"
  /\ seo.at = "generating"
  /\ seo.exit = 1
  /\ Len(seo.urls) >= 1
  /\ sitemap = File(<<CommentChunk>>)

\* a path with no directory named thanks, and with index.html, if at all, as
\* the whole name of its file
PlainPath(p) ==
  LET segs == Segments(p)
  IN \A j \in 1..Len(segs) :
       /\ j < Len(segs) => segs[j] # <<"thanks">>
       /\ \A k \in 1..Len(segs[j]) :
            segs[j][k] = "index.html" => (j = Len(segs) /\ segs[j] = <<"index.html">>)

\* C26: when no path under public/ has a directory named thanks or an
\* index.html that is not the whole name of its file, scripts/seo.js lists
\* the files the builder lists, and for the builder's listing the url paths
\* scripts/seo.js derives are, one by one, the ones the builder derived.
C26_SameUrls ==
  (Derived /\ \A p \in fs : PlainPath(p)) =>
    /\ SeoGlobby(fs) = Globby(fs)
    /\ Len(SeoUrls(files)) = Len(links)
    /\ \A i \in 1..Len(links) : SeoUrls(files)[i] = links[i].url

\* both derivations have given /es/contacto/ for its directory index
C26_Witness ==
  /\ Derived
  /\ files = <<(<<"public", "/", "es", "/", "contact", "o", "/", "index.html">>)>>
  /\ PlainPath(files[1])
  /\ links[1].url = <<"/", "es", "/", "contact", "o", "/">>
  /\ SeoUrl(files[1]) = links[1].url

\* a page that is not a directory index
C26_WitnessPage ==
  /\ Derived
  /\ files = <<(<<"public", "/", "services", "/", "404.html">>)>>
  /\ PlainPath(files[1])
  /\ SeoUrl(files[1]) = <<"/", "services", "/", "404.html">>

\* the missing references of dist/: a non-empty href or src of an HTML file
\* directly inside dist/ whose path, without its query string and its
\* leading slash, is not there
DanglingRefs ==
  {<<n, k>> \in {"index.html", "about.html"} \X (1..(MaxRefs + 1)) :
     /\ \E e \in vb.entries : e.name = n /\ e.file
     /\ k <= Len(vb.refs[n])
     /\ LET l == vb.refs[n][k]
            noQuery == IF \E i \in 1..Len(l) : l[i] = "?"
                       THEN SubSeq(l, 1, (CHOOSE i \in 1..Len(l) :
                                            /\ l[i] = "?"
                                            /\ \A j \in 1..(i - 1) : l[j] # "?") - 1)
                       ELSE l
            rel == IF noQuery # <<>> /\ noQuery[1] = "/" THEN Tail(noQuery) ELSE noQuery
        IN l # <<>> /\ rel # <<>> /\ rel \notin vb.present}

\* C27: validate-build.js ends with status 1 exactly when dist/ is missing or
\* some reference of an HTML file directly inside dist/ is missing, and then,
\* dist/ being there, it has reported every missing reference, each once;
\* otherwise it ends with status 0 after the message that all assets exist.
C27_ValidateBuild ==
  /\ vb.pc \in {"done", "failed"} =>
       /\ vb.exit = (IF ~vb.dist \/ DanglingRefs # {} THEN 1 ELSE 0)
       /\ vb.ok = (vb.dist /\ DanglingRefs = {})
       /\ Len(vb.reported) = (IF vb.dist THEN Cardinality(DanglingRefs) ELSE 0)
       /\ \A d \in DanglingRefs :
            vb.dist =>
              Cardinality({i \in 1..Len(vb.reported) :
                             vb.reported[i] = [html |-> d[1], asset |-> vb.refs[d[1]][d[2]]]})
                = Cardinality({k \in 1..Len(vb.refs[d[1]]) :
                                 <<d[1], k>> \in DanglingRefs
                                 /\ vb.refs[d[1]][k] = vb.refs[d[1]][d[2]]})
  /\ vb.pc \in {"idle", "checking"} => (vb.exit = -1 /\ ~vb.ok /\ vb.reported = <<>>)

\* three missing references in two files have been reported
C27_Witness ==
  /\ vb.pc = "failed"
  /\ vb.dist
  /\ vb.exit = 1
  /\ Len(vb.reported) = 3
  /\ \E i, j \in 1..3 : vb.reported[i].html # vb.reported[j].html

\* every reference is there, a file that is not HTML and a directory named
\* archive.html are passed over
C27_WitnessOk ==
  /\ vb.pc = "done"
  /\ vb.ok
  /\ Cardinality(vb.entries) = 4
  /\ Len(vb.refs["index.html"]) = 2
  /\ <<"app.js">> \notin vb.present

\* dist/ is missing
C27_WitnessNoDist ==
  /\ vb.pc = "failed"
  /\ ~vb.dist
  /\ vb.exit = 1

\* C28: from a page whose hamburger has an aria-expanded other than 'true'
\* and whose menu is hidden, after any number of clicks aria-expanded is
\* 'true' exactly when the menu is not hidden; with the handler installed an
\* odd number of clicks leaves the menu shown and an even number leaves it
\* hidden and aria-expanded other than 'true'; the handler is installed only
\* when both elements are there, and without it a click changes nothing.
C28_NavToggle ==
  /\ ui.installed => (ui.hamburger /\ ui.menu /\ ui.pc = "loaded")
  /\ (~ui.hamburger \/ ~ui.menu) => ~ui.installed
  /\ ~ui.installed => (ui.expanded = ui.first.expanded /\ ui.hidden = ui.first.hidden)
  /\ (ui.hamburger /\ ui.menu /\ ui.first.expanded # "true" /\ ui.first.hidden) =>
       /\ (ui.expanded = "true") = ~ui.hidden
       /\ (ui.installed /\ ui.clicks % 2 = 1) => (ui.expanded = "true" /\ ~ui.hidden)
       /\ (ui.installed /\ ui.clicks % 2 = 0) => (ui.expanded # "true" /\ ui.hidden)

\* the menu is shown after three clicks
C28_Witness ==
  /\ ui.installed
  /\ ui.first = [expanded |-> "absent", hidden |-> TRUE]
  /\ ui.clicks = 3
  /\ ui.expanded = "true"
  /\ ~ui.hidden

\* the menu is hidden again after four clicks
C28_WitnessEven ==
  /\ ui.installed
  /\ ui.first = [expanded |-> "false", hidden |-> TRUE]
  /\ ui.clicks = 4
  /\ ui.expanded = "false"
  /\ ui.hidden

\* a click on the hamburger of a page without the menu
C28_WitnessNoMenu ==
  /\ ui.pc = "loaded"
  /\ ui.hamburger
  /\ ~ui.menu
  /\ ui.clicks = 1
  /\ ~ui.installed

====
